---- MODULE Spec2Model ----
(***************************************************************************)
(* tcp-quic-bench: the client measurement driver (runClient, RunTCPClient, *)
(* RunQUICClient), the server loops (RunTCPServer, RunQUICServer,          *)
(* pprofServer) and the statistics (calculateStatistics, PrintResults).    *)
(*                                                                         *)
(* Four specifications share the module:                                   *)
(*   Spec        one client run against an arbitrary peer;                 *)
(*   LiveSpec    the same run, the client taking a step whenever it can;   *)
(*   ServerSpec  one server process and its concurrent clients;            *)
(*   StatsSpec   PrintResults applied to bounded argument values.          *)
(* The variables of the other parts stay at their initial values.          *)
(***************************************************************************)
EXTENDS Integers, Sequences, FiniteSets, TLC

\* ---------------------------------------------------------------- bounds
\* Payload length in transfer units (data.Generate makes 1 << 30 bytes; the
\* model transfers a payload of PayloadLen units, one unit per Read/Write).
PayloadLen == 3
\* Environment budget of one client run: every clock tick that elapses
\* inside a blocking call and every early end-of-stream spends one unit.
MaxFuel == 2

\* ------------------------------------------------------ program constants
warmupRuns == 2
measurementRuns == 10

None == "none"
\* No PrintResults call has been made.
NoReport == <<>>

VARIABLES
    \* ---- client process (runClient and the callee in progress)
    proto,                  \* -proto flag
    pc,                     \* position of the client process
    i,                      \* loop counter of runClient
    now,                    \* the clock read by time.Now / time.Since
    fuel,                   \* environment budget left
    handshakeStartTime,
    handshakeDuration,
    dataTransferStartTime,
    dataTransferDuration,
    bytesCopied,            \* running count of io.Copy
    err,                    \* error returned by the client function ("nil" or a cause)
    sess,                   \* client session: rawConn/conn and stream, each none/open/closed
    totalBytes,
    handshakeDurations,
    dataTransferDurations,
    exit,                   \* "running", "ok" (main returned) or "fatal" (log.Fatalf)
    printed,                \* arguments and pairwise totals of the PrintResults call, or NoReport
    trials,                 \* history: result of every trial that returned without error
    dials,                  \* history: number of dial calls made
    \* ---- server process (RunTCPServer / RunQUICServer) and its peers
    sproto,                 \* -proto flag of the server
    payload,                \* the data slice handed to the server
    srvpc,                  \* position of the server's main goroutine
    srvExit,                \* "running" or "fatal" (log.Fatalf ended the process)
    pprof,                  \* the pprofServer goroutine
    acceptErrors,           \* number of failed Accept calls so far
    cli,                    \* per connection: the client's side
    hst,                    \* per connection: the server's side (accept loop, handler)
    sent,                   \* per connection: payload units written by the handler
    rcvd,                   \* per connection: payload units the client has received
    hlog,                   \* per connection: calls the server made on it, in order
    overlap,                \* history: two handlers have been writing at the same time
    \* ---- statistics (PrintResults applied to given arguments)
    args,                   \* the arguments of PrintResults, or NoReport
    report                  \* what PrintResults computed, or NoReport

clientVars == <<proto, pc, i, now, fuel, handshakeStartTime, handshakeDuration,
                dataTransferStartTime, dataTransferDuration, bytesCopied, err, sess,
                totalBytes, handshakeDurations, dataTransferDurations, exit,
                printed, trials, dials>>

serverVars == <<sproto, payload, srvpc, srvExit, pprof, acceptErrors, cli, hst,
                sent, rcvd, hlog, overlap>>

statsVars == <<args, report>>

vars == <<clientVars, serverVars, statsVars>>

\* ------------------------------------------------------------ the client

Protos == {"tcp", "quic", "other"}

\* Elapsed ticks a blocking call may take: none, or one paid from the budget.
Delays == IF fuel > 0 THEN {0, 1} ELSE {0}

NoSess == [conn |-> None, stream |-> None]

\* Mutant of TotalDurations: every handshake is paired with the first transfer.
TotalDurations_FirstTransfer(hs, dt) == [k \in 1..Len(hs) |-> hs[k] + dt[1]]

\* PrintResults lines 136-139: the per-run total durations.
TotalDurations(hs, dt) == [k \in 1..Len(hs) |-> hs[k] + dt[k]]

ClientInit ==
    /\ proto \in Protos
    /\ pc = "loop"
    /\ i = 0
    /\ now = 0
    /\ fuel = MaxFuel
    /\ handshakeStartTime = 0
    /\ handshakeDuration = 0
    /\ dataTransferStartTime = 0
    /\ dataTransferDuration = 0
    /\ bytesCopied = 0
    /\ err = "nil"
    /\ sess = NoSess
    /\ totalBytes = 0
    /\ handshakeDurations = <<>>
    /\ dataTransferDurations = <<>>
    /\ exit = "running"
    /\ printed = NoReport
    /\ trials = <<>>
    /\ dials = 0

\* A client function returns an error: (0, 0, 0, err).
ReturnErr(cause) ==
    /\ err' = cause
    /\ bytesCopied' = 0
    /\ handshakeDuration' = 0
    /\ dataTransferDuration' = 0
    /\ pc' = "ret"

\* runClient line 71 and the switch of lines 76-83: start the next trial.
LoopHead ==
    /\ pc = "loop" /\ exit = "running"
    /\ i < warmupRuns + measurementRuns
    /\ proto \in {"tcp", "quic"}
    /\ pc' = IF proto = "tcp" THEN "tcp_dial" ELSE "quic_dial"
    /\ err' = "nil"
    /\ bytesCopied' = 0
    /\ handshakeDuration' = 0
    /\ dataTransferDuration' = 0
    /\ sess' = NoSess
    /\ UNCHANGED <<proto, i, now, fuel, handshakeStartTime, dataTransferStartTime,
                   totalBytes, handshakeDurations, dataTransferDurations, exit,
                   printed, trials, dials>>
    /\ UNCHANGED <<serverVars, statsVars>>

\* runClient lines 81-82: log.Fatalf("Unknown protocol").
UnknownProto ==
    /\ pc = "loop" /\ exit = "running"
    /\ i < warmupRuns + measurementRuns
    /\ proto \notin {"tcp", "quic"}
    /\ exit' = "fatal"
    /\ pc' = "exited"
    /\ UNCHANGED <<proto, i, now, fuel, handshakeStartTime, handshakeDuration,
                   dataTransferStartTime, dataTransferDuration, bytesCopied, err, sess,
                   totalBytes, handshakeDurations, dataTransferDurations,
                   printed, trials, dials>>
    /\ UNCHANGED <<serverVars, statsVars>>

\* RunTCPClient lines 29-34: take the start time, dial.
TCPDial ==
    /\ pc = "tcp_dial"
    /\ handshakeStartTime' = now
    /\ dials' = dials + 1
    /\ \E d \in Delays, ok \in BOOLEAN :
        /\ now' = now + d
        /\ fuel' = fuel - d
        /\ IF ok
             THEN /\ sess' = [sess EXCEPT !.conn = "open"]
                  /\ pc' = "tcp_mss"
                  /\ UNCHANGED <<err, bytesCopied, handshakeDuration, dataTransferDuration>>
             ELSE /\ ReturnErr("dial")
                  /\ UNCHANGED sess
    /\ UNCHANGED <<proto, i, dataTransferStartTime, totalBytes, handshakeDurations,
                   dataTransferDurations, exit, printed, trials>>
    /\ UNCHANGED <<serverVars, statsVars>>

\* RunTCPClient lines 37-53: TCP_MAXSEG through the raw socket handle.  A failing
\* SyscallConn or Control returns the error (the dialed connection stays open: the
\* deferred Close is registered at line 61 only); a failing SetsockoptInt is logged
\* inside the callback and the function goes on.
MSSOutcomes == {"ok", "setsockopt", "syscallconn", "control"}
TCPConfigure ==
    /\ pc = "tcp_mss"
    /\ \E o \in MSSOutcomes :
        IF o \in {"ok", "setsockopt"}
          THEN /\ pc' = "tcp_handshake"
               /\ UNCHANGED <<err, bytesCopied, handshakeDuration, dataTransferDuration>>
          ELSE ReturnErr(o)
    /\ UNCHANGED <<proto, i, now, fuel, handshakeStartTime, dataTransferStartTime, sess,
                   totalBytes, handshakeDurations, dataTransferDurations, exit,
                   printed, trials, dials>>
    /\ UNCHANGED <<serverVars, statsVars>>

\* RunTCPClient lines 56-66: TLS handshake; on success the handshake duration is
\* taken, Close is deferred and the transfer clock starts.
TCPHandshake ==
    /\ pc = "tcp_handshake"
    /\ \E d \in Delays, ok \in BOOLEAN :
        /\ now' = now + d
        /\ fuel' = fuel - d
        /\ IF ok
             THEN /\ handshakeDuration' = now' - handshakeStartTime
                  /\ dataTransferStartTime' = now'
                  /\ pc' = "copy"
                  /\ UNCHANGED <<err, bytesCopied, dataTransferDuration>>
             ELSE /\ ReturnErr("handshake")
                  /\ UNCHANGED dataTransferStartTime
    /\ UNCHANGED <<proto, i, handshakeStartTime, sess, totalBytes, handshakeDurations,
                   dataTransferDurations, exit, printed, trials, dials>>
    /\ UNCHANGED <<serverVars, statsVars>>

\* RunQUICClient lines 95-102: take the start time, dial (the QUIC handshake
\* completes inside DialAddr), take the handshake duration, defer CloseWithError.
QUICDial ==
    /\ pc = "quic_dial"
    /\ handshakeStartTime' = now
    /\ dials' = dials + 1
    /\ \E d \in Delays, ok \in BOOLEAN :
        /\ now' = now + d
        /\ fuel' = fuel - d
        /\ IF ok
             THEN /\ handshakeDuration' = now' - handshakeStartTime'
                  /\ sess' = [sess EXCEPT !.conn = "open"]
                  /\ pc' = "quic_accept"
                  /\ UNCHANGED <<err, bytesCopied, dataTransferDuration>>
             ELSE /\ ReturnErr("dial")
                  /\ UNCHANGED sess
    /\ UNCHANGED <<proto, i, dataTransferStartTime, totalBytes, handshakeDurations,
                   dataTransferDurations, exit, printed, trials>>
    /\ UNCHANGED <<serverVars, statsVars>>

\* RunQUICClient lines 107-116: accept the server's stream; on success Close of the
\* stream is deferred and the transfer clock starts; on failure the deferred
\* CloseWithError closes the connection.
QUICAcceptStream ==
    /\ pc = "quic_accept"
    /\ \E d \in Delays, ok \in BOOLEAN :
        /\ now' = now + d
        /\ fuel' = fuel - d
        /\ IF ok
             THEN /\ sess' = [sess EXCEPT !.stream = "open"]
                  /\ dataTransferStartTime' = now'
                  /\ pc' = "copy"
                  /\ UNCHANGED <<err, bytesCopied, handshakeDuration, dataTransferDuration>>
             ELSE /\ ReturnErr("acceptstream")
                  /\ sess' = [sess EXCEPT !.conn = "closed"]
                  /\ UNCHANGED dataTransferStartTime
    /\ UNCHANGED <<proto, i, handshakeStartTime, totalBytes, handshakeDurations,
                   dataTransferDurations, exit, printed, trials, dials>>
    /\ UNCHANGED <<serverVars, statsVars>>

\* Mutant of Deferred: the deferred calls close nothing.
Deferred_KeepOpen(s) == s

\* The deferred calls that run when the copy ends: conn.Close (tcp, line 61);
\* stream.Close then conn.CloseWithError (quic, lines 111 and 102).
Deferred(s) ==
    [conn |-> "closed", stream |-> IF s.stream = "open" THEN "closed" ELSE s.stream]

\* What the client does with the byte count of io.Copy when the stream ends
\* (client.go lines 67-74 and 117-124): any count is returned with a nil error.
CopyResult(n) == "nil"

\* io.Copy(io.Discard, conn|stream), lines 67-71 and 117-121, one Read per step:
\* a unit of payload, the end of the stream, or a read error.  The peer ends the
\* stream after the whole payload, or earlier (paid from the budget).
CopyRead ==
    /\ pc = "copy"
    /\ \E d \in Delays :
        /\ now' = now + d
        /\ \E o \in {"data", "eof", "early_eof", "error"} :
            CASE o = "data" ->
                    /\ bytesCopied < PayloadLen
                    /\ bytesCopied' = bytesCopied + 1
                    /\ fuel' = fuel - d
                    /\ UNCHANGED <<pc, err, sess, handshakeDuration, dataTransferDuration>>
              [] o \in {"eof", "early_eof"} ->
                    /\ IF o = "eof" THEN bytesCopied = PayloadLen
                                    ELSE bytesCopied < PayloadLen /\ fuel - d > 0
                    /\ fuel' = IF o = "eof" THEN fuel - d ELSE fuel - d - 1
                    /\ sess' = Deferred(sess)
                    /\ IF CopyResult(bytesCopied) = "nil"
                         THEN /\ dataTransferDuration' = now' - dataTransferStartTime
                              /\ pc' = "ret"
                              /\ UNCHANGED <<err, bytesCopied, handshakeDuration>>
                         ELSE ReturnErr(CopyResult(bytesCopied))
              [] o = "error" ->
                    /\ fuel' = fuel - d
                    /\ sess' = Deferred(sess)
                    /\ ReturnErr("read")
    /\ UNCHANGED <<proto, i, handshakeStartTime, dataTransferStartTime, totalBytes,
                   handshakeDurations, dataTransferDurations, exit, printed, trials, dials>>
    /\ UNCHANGED <<serverVars, statsVars>>

\* The blocking calls of a trial (Dial, Handshake, DialAddr, AcceptStream, the
\* Read of io.Copy) and the position of a client blocked in one of them by a
\* peer that is alive but has stopped making progress.
BlockedAt == [tcp_dial |-> "tcp_dial_blocked", tcp_handshake |-> "tcp_handshake_blocked",
              quic_dial |-> "quic_dial_blocked", quic_accept |-> "quic_accept_blocked",
              copy |-> "copy_blocked"]

\* The peer stops making progress while the client is inside a blocking call.
PeerStalls ==
    /\ pc \in DOMAIN BlockedAt
    /\ pc' = BlockedAt[pc]
    /\ UNCHANGED <<proto, i, now, fuel, handshakeStartTime, handshakeDuration,
                   dataTransferStartTime, dataTransferDuration, bytesCopied, err, sess,
                   totalBytes, handshakeDurations, dataTransferDurations, exit,
                   printed, trials, dials>>
    /\ UNCHANGED <<serverVars, statsVars>>

\* Whether a timeout ends the blocked call.  QUIC: the connection carries
\* MaxIdleTimeout (client.go line 92), and the handshake its own idle timeout.
\* TCP: the dialer, the TLS connection and the reads carry no deadline
\* (client.go lines 30-31, 56-57, 67); only the connect of Dial is given up, by
\* the operating system.
TimesOut(p, where) == p = "quic" \/ where = "tcp_dial_blocked"

\* Clock ticks until the timeout of a blocked call fires.
IdleTimeoutTicks == 1

\* The timeout fires: the blocked call returns an error, and the deferred calls
\* registered so far run.
TransportTimeout ==
    /\ pc \in {BlockedAt[b] : b \in DOMAIN BlockedAt}
    /\ TimesOut(proto, pc)
    /\ now' = now + IdleTimeoutTicks
    /\ sess' = IF pc = "copy_blocked" THEN Deferred(sess)
               ELSE IF pc = "quic_accept_blocked" THEN [sess EXCEPT !.conn = "closed"]
               ELSE sess
    /\ ReturnErr("timeout")
    /\ UNCHANGED <<proto, i, fuel, handshakeStartTime, dataTransferStartTime,
                   totalBytes, handshakeDurations, dataTransferDurations, exit,
                   printed, trials, dials>>
    /\ UNCHANGED <<serverVars, statsVars>>

\* Mutant of OnTrialError: the failed trial is skipped and the loop goes on.
OnTrialError_Continue == "continue"

\* runClient lines 85-87: what a failed trial does to the run.
OnTrialError == "fatal"

\* Mutant of Retained: the last warmup trial is retained too.
Retained_OffByOne(n) == n >= warmupRuns - 1

\* runClient line 93: whether trial number n is retained.
Retained(n) == n >= warmupRuns

\* runClient lines 85-96: the trial has returned.
Record ==
    /\ pc = "ret"
    /\ IF err # "nil"
         THEN /\ IF OnTrialError = "fatal"
                   THEN exit' = "fatal" /\ pc' = "exited" /\ i' = i
                   ELSE exit' = exit /\ pc' = "loop" /\ i' = i + 1
              /\ UNCHANGED <<totalBytes, handshakeDurations, dataTransferDurations, trials>>
         ELSE /\ totalBytes' = IF i = 0 THEN bytesCopied ELSE totalBytes
              /\ IF Retained(i)
                   THEN /\ handshakeDurations' = Append(handshakeDurations, handshakeDuration)
                        /\ dataTransferDurations' =
                               Append(dataTransferDurations, dataTransferDuration)
                   ELSE UNCHANGED <<handshakeDurations, dataTransferDurations>>
              /\ trials' = Append(trials, [bytes |-> bytesCopied,
                                           hs |-> handshakeDuration,
                                           dt |-> dataTransferDuration])
              /\ pc' = "sleep"
              /\ UNCHANGED <<exit, i>>
    /\ UNCHANGED <<proto, now, fuel, handshakeStartTime, handshakeDuration,
                   dataTransferStartTime, dataTransferDuration, bytesCopied, err, sess,
                   printed, dials>>
    /\ UNCHANGED <<serverVars, statsVars>>

\* runClient line 97 and the loop increment: time.Sleep(100 * time.Millisecond).
SleepTicks == 1
Sleep ==
    /\ pc = "sleep"
    /\ now' = now + SleepTicks
    /\ i' = i + 1
    /\ pc' = "loop"
    /\ UNCHANGED <<proto, fuel, handshakeStartTime, handshakeDuration,
                   dataTransferStartTime, dataTransferDuration, bytesCopied, err, sess,
                   totalBytes, handshakeDurations, dataTransferDurations, exit,
                   printed, trials, dials>>
    /\ UNCHANGED <<serverVars, statsVars>>

\* runClient line 100: the loop is over, PrintResults is called and main returns.
CallPrintResults ==
    /\ pc = "loop" /\ exit = "running"
    /\ ~(i < warmupRuns + measurementRuns)
    /\ printed' = <<[totalBytes |-> totalBytes,
                     handshakeDurations |-> handshakeDurations,
                     dataTransferDurations |-> dataTransferDurations,
                     totalDurations |-> TotalDurations(handshakeDurations,
                                                       dataTransferDurations)]>>
    /\ exit' = "ok"
    /\ pc' = "exited"
    /\ UNCHANGED <<proto, i, now, fuel, handshakeStartTime, handshakeDuration,
                   dataTransferStartTime, dataTransferDuration, bytesCopied, err, sess,
                   totalBytes, handshakeDurations, dataTransferDurations,
                   trials, dials>>
    /\ UNCHANGED <<serverVars, statsVars>>

ClientNext ==
    \/ LoopHead
    \/ UnknownProto
    \/ TCPDial
    \/ TCPConfigure
    \/ TCPHandshake
    \/ QUICDial
    \/ QUICAcceptStream
    \/ CopyRead
    \/ PeerStalls
    \/ TransportTimeout
    \/ Record
    \/ Sleep
    \/ CallPrintResults

\* ------------------------------------------------------- float64 arithmetic
\* The statistics are computed in float64.  A finite float64 is sign s, a
\* mantissa m of exactly MantBits bits (or zero) and an exponent e, with value
\* (-1)^s * m * 2^e; every operation computes the exact result and rounds it
\* once, to nearest, ties to even, as IEEE 754 does.  Mantissas and the exact
\* intermediate results are natural numbers held as sequences of limbs, least
\* significant first, without leading zero limbs.  Exponents stay far inside the
\* float64 range for the values the model reaches, so no overflow or subnormal
\* arises.
LimbBits == 15
Base == 2^LimbBits
MantBits == 53

RECURSIVE BNorm(_)
BNorm(a) ==
    IF Len(a) = 0 THEN <<>>
    ELSE IF a[Len(a)] = 0 THEN BNorm(SubSeq(a, 1, Len(a) - 1)) ELSE a

RECURSIVE BFromInt(_)
BFromInt(n) == IF n = 0 THEN <<>> ELSE <<n % Base>> \o BFromInt(n \div Base)

RECURSIVE BToInt(_)
BToInt(a) == IF Len(a) = 0 THEN 0 ELSE a[1] + Base * BToInt(Tail(a))

Limb(a, k) == IF k <= Len(a) THEN a[k] ELSE 0

RECURSIVE BAddC(_, _, _, _)
BAddC(a, b, k, c) ==
    IF k > Len(a) /\ k > Len(b)
      THEN (IF c = 0 THEN <<>> ELSE <<c>>)
      ELSE LET t == Limb(a, k) + Limb(b, k) + c
           IN  <<t % Base>> \o BAddC(a, b, k + 1, t \div Base)
BAdd(a, b) == BAddC(a, b, 1, 0)

\* a - b for a >= b.
RECURSIVE BSubC(_, _, _, _)
BSubC(a, b, k, br) ==
    IF k > Len(a) THEN <<>>
    ELSE LET t == a[k] - Limb(b, k) - br
         IN  IF t < 0 THEN <<t + Base>> \o BSubC(a, b, k + 1, 1)
                      ELSE <<t>> \o BSubC(a, b, k + 1, 0)
BSub(a, b) == BNorm(BSubC(a, b, 1, 0))

RECURSIVE BCmpAt(_, _, _)
BCmpAt(a, b, k) ==
    IF k = 0 THEN 0
    ELSE IF a[k] > b[k] THEN 1
    ELSE IF a[k] < b[k] THEN -1
    ELSE BCmpAt(a, b, k - 1)
BCmp(a, b) ==
    IF Len(a) > Len(b) THEN 1
    ELSE IF Len(a) < Len(b) THEN -1
    ELSE BCmpAt(a, b, Len(a))

\* a * f for 0 <= f <= Base.
RECURSIVE BMulSmallC(_, _, _, _)
BMulSmallC(a, f, k, c) ==
    IF k > Len(a)
      THEN (IF c = 0 THEN <<>> ELSE <<c>>)
      ELSE LET t == a[k] * f + c
           IN  <<t % Base>> \o BMulSmallC(a, f, k + 1, t \div Base)
BMulSmall(a, f) == IF f = 0 THEN <<>> ELSE BMulSmallC(a, f, 1, 0)

BShlLimbs(a, n) == IF Len(a) = 0 THEN <<>> ELSE [k \in 1..n |-> 0] \o a

RECURSIVE BMulAt(_, _, _)
BMulAt(a, b, k) ==
    IF k > Len(b) THEN <<>>
    ELSE BAdd(BShlLimbs(BMulSmall(a, b[k]), k - 1), BMulAt(a, b, k + 1))
BMul(a, b) == BMulAt(a, b, 1)

\* a * 2^n and floor(a / 2^n).
BShl(a, n) == BShlLimbs(BMulSmall(a, 2^(n % LimbBits)), n \div LimbBits)
BShrSmall(a, r) ==
    BNorm([k \in 1..Len(a) |->
             (a[k] \div 2^r) + (Limb(a, k + 1) % 2^r) * 2^(LimbBits - r)])
BShr(a, n) ==
    IF n \div LimbBits >= Len(a) THEN <<>>
    ELSE BShrSmall(SubSeq(a, (n \div LimbBits) + 1, Len(a)), n % LimbBits)

\* Bit n of a (bit 0 is the least significant), and whether a mod 2^n # 0.
BBit(a, n) ==
    IF n \div LimbBits >= Len(a) THEN 0
    ELSE (a[(n \div LimbBits) + 1] \div 2^(n % LimbBits)) % 2
BLowNonZero(a, n) ==
    \/ \E k \in 1..Len(a) : k <= n \div LimbBits /\ a[k] # 0
    \/ /\ n \div LimbBits < Len(a)
       /\ a[(n \div LimbBits) + 1] % 2^(n % LimbBits) # 0

RECURSIVE IntBitLen(_)
IntBitLen(n) == IF n = 0 THEN 0 ELSE 1 + IntBitLen(n \div 2)
BBitLen(a) ==
    IF Len(a) = 0 THEN 0 ELSE LimbBits * (Len(a) - 1) + IntBitLen(a[Len(a)])

\* n steps of restoring division of r by m (r < 2m): <<q, rest>> with
\* q = floor(r * 2^(n-1) / m) and rest # <<>> exactly when the division is
\* inexact.  (The test of Len(q1), never true, has q evaluated at every step.)
RECURSIVE BDivBits(_, _, _, _)
BDivBits(r, m, n, q) ==
    IF n = 0 THEN <<q, r>>
    ELSE LET ge == BCmp(r, m) >= 0
             r1 == IF ge THEN BSub(r, m) ELSE r
             q1 == BAdd(BMulSmall(q, 2), IF ge THEN <<1>> ELSE <<>>)
         IN  IF Len(q1) > MantBits + 4 THEN <<q1, r1>>
             ELSE BDivBits(BMulSmall(r1, 2), m, n - 1, q1)

\* The same n steps, taken ChunkBits at a time; qr is <<q, r>> so far.
ChunkBits == 15
RECURSIVE BDivChunks(_, _, _)
BDivChunks(qr, m, n) ==
    IF n <= ChunkBits THEN BDivBits(qr[2], m, n, qr[1])
    ELSE BDivChunks(BDivBits(qr[2], m, ChunkBits, qr[1]), m, n - ChunkBits)

\* The largest x with x * x <= a that agrees with x above bit k, found bit by
\* bit from bit k down to bit low.
RECURSIVE BSqrtBits(_, _, _, _)
BSqrtBits(a, x, k, low) ==
    IF k < low THEN x
    ELSE LET t == BAdd(x, BShl(<<1>>, k))
         IN  IF BCmp(BMul(t, t), a) <= 0 THEN BSqrtBits(a, t, k - 1, low)
                                         ELSE BSqrtBits(a, x, k - 1, low)

\* floor(sqrt(a)) for a < 4^(k+1), ChunkBits bits at a time.
RECURSIVE BSqrtChunks(_, _, _)
BSqrtChunks(a, x, k) ==
    IF k < ChunkBits THEN BSqrtBits(a, x, k, 0)
    ELSE BSqrtChunks(a, BSqrtBits(a, x, k, k - ChunkBits + 1), k - ChunkBits)

FNum(s, m, e) == [k |-> "num", s |-> s, m |-> m, e |-> e]
FZero == FNum(0, <<>>, 0)
FNaN == [k |-> "nan", s |-> 0, m |-> <<>>, e |-> 0]
FInf(s) == [k |-> "inf", s |-> s, m |-> <<>>, e |-> 0]
FIsZero(f) == f.k = "num" /\ Len(f.m) = 0
FIsNaN(f) == f.k = "nan"
FNeg(f) == [f EXCEPT !.s = 1 - f.s]
\* What an operation gives when an operand is not a finite number.
FSpecial(a, b) == IF a.k = "nan" \/ b.k = "nan" THEN FNaN
                  ELSE IF a.k = "inf" THEN a ELSE b

\* Each operation F below is FOf applied to the values of its operands, bound
\* through a singleton set so that every operand is evaluated once.

\* The float64 nearest to (-1)^s * (M + f) * 2^e, where 0 <= f < 1 and f > 0
\* exactly when sticky; ties go to the even mantissa.  With sticky set M has at
\* least MantBits + 2 bits.  L is the bit length of M; a mantissa of MantBits
\* bits is cut off M, and it is incremented when the bits cut off are more than
\* half a unit, or exactly half and the mantissa is odd.
RoundsUp(M, sh, sticky) ==
    /\ BBit(M, sh - 1) = 1
    /\ (sticky \/ BLowNonZero(M, sh - 1) \/ BBit(M, sh) = 1)
FRoundCarry(s, q, e) ==
    IF BBitLen(q) > MantBits THEN FNum(s, BShr(q, 1), e + 1) ELSE FNum(s, q, e)
FRoundLen(s, M, e, sticky, L) ==
    IF L = 0 THEN FZero
    ELSE IF L <= MantBits THEN FNum(s, BShl(M, MantBits - L), e - (MantBits - L))
    ELSE IF RoundsUp(M, L - MantBits, sticky)
      THEN FRoundCarry(s, BAdd(BShr(M, L - MantBits), <<1>>), e + (L - MantBits))
      ELSE FNum(s, BShr(M, L - MantBits), e + (L - MantBits))
FRound(s, M, e, sticky) == FRoundLen(s, M, e, sticky, BBitLen(M))

\* FRound of an exact result <<s, M, e, sticky>>.
FRoundExact(x) == FRound(x[1], x[2], x[3], x[4])

\* float64(n) for an integer n.
FFromInt(n) ==
    FRound(IF n < 0 THEN 1 ELSE 0, BFromInt(IF n < 0 THEN -n ELSE n), 0, FALSE)

\* a + b, exactly, for finite nonzero a, b with a.e >= b.e and A = a.m * 2^(a.e - b.e).
\* When the exponents are more than FarApart apart, b only decides the
\* direction of rounding.
FarApart == 64
FAddFar(a, b) ==
    IF a.s = b.s THEN <<a.s, BShl(a.m, 2), a.e - 2, TRUE>>
                 ELSE <<a.s, BSub(BShl(a.m, 3), <<1>>), a.e - 3, TRUE>>
FAddNear(a, b, A) ==
    IF a.s = b.s THEN <<a.s, BAdd(A, b.m), b.e, FALSE>>
    ELSE IF BCmp(A, b.m) >= 0 THEN <<a.s, BSub(A, b.m), b.e, FALSE>>
    ELSE <<b.s, BSub(b.m, A), b.e, FALSE>>
FAddOrdered(a, b) ==
    IF a.e - b.e > FarApart THEN FAddFar(a, b)
                            ELSE FAddNear(a, b, BShl(a.m, a.e - b.e))

FAddOf(a, b) ==
    IF a.k # "num" \/ b.k # "num" THEN FSpecial(a, b)
    ELSE IF FIsZero(a) THEN (IF FIsZero(b) THEN FZero ELSE b)
    ELSE IF FIsZero(b) THEN a
    ELSE FRoundExact(FAddOrdered(IF a.e >= b.e THEN a ELSE b, IF a.e >= b.e THEN b ELSE a))
FAdd(a, b) == CHOOSE r \in {FAddOf(x[1], x[2]) : x \in {<<a, b>>}} : TRUE

FSub(a, b) == FAdd(a, FNeg(b))

FMulOf(a, b) ==
    IF a.k # "num" \/ b.k # "num" THEN FSpecial(a, b)
    ELSE IF FIsZero(a) \/ FIsZero(b) THEN FNum((a.s + b.s) % 2, <<>>, 0)
    ELSE FRound((a.s + b.s) % 2, BMul(a.m, b.m), a.e + b.e, FALSE)
FMul(a, b) == CHOOSE r \in {FMulOf(x[1], x[2]) : x \in {<<a, b>>}} : TRUE

\* a / b: 0/0 is NaN and x/0 is an infinity (no run-time panic in Go).  qr
\* is the quotient of the mantissas to DivBits bits, and the rest.
DivBits == MantBits + 4
FDivRound(s, qr, e) == FRound(s, qr[1], e, Len(qr[2]) # 0)
FDivOf(a, b) ==
    IF a.k # "num" \/ b.k # "num" THEN FSpecial(a, b)
    ELSE IF FIsZero(b) THEN (IF FIsZero(a) THEN FNaN ELSE FInf((a.s + b.s) % 2))
    ELSE IF FIsZero(a) THEN FNum((a.s + b.s) % 2, <<>>, 0)
    ELSE FDivRound((a.s + b.s) % 2, BDivChunks(<<<<>>, a.m>>, b.m, DivBits),
                   a.e - b.e - (DivBits - 1))
FDiv(a, b) == CHOOSE r \in {FDivOf(x[1], x[2]) : x \in {<<a, b>>}} : TRUE

\* math.Sqrt.  The mantissa is shifted left by sh bits, sh making the exponent
\* even; x is the integer root of the shifted mantissa M.
SqrtShift(e) == IF (e - (MantBits + 4)) % 2 = 0 THEN MantBits + 4 ELSE MantBits + 5
FSqrtRound(M, x, e) == FRound(0, x, e, BCmp(BMul(x, x), M) # 0)
FSqrtShifted(M, e) == FSqrtRound(M, BSqrtChunks(M, <<>>, MantBits + 4), e)
FSqrtOf(a) ==
    IF a.k = "nan" THEN FNaN
    ELSE IF FIsZero(a) THEN a
    ELSE IF a.s = 1 THEN FNaN
    ELSE IF a.k = "inf" THEN a
    ELSE FSqrtShifted(BShl(a.m, SqrtShift(a.e)), (a.e - SqrtShift(a.e)) \div 2)
FSqrt(a) == CHOOSE r \in {FSqrtOf(x) : x \in {a}} : TRUE

\* x > 0.
FPositiveOf(f) == f.s = 0 /\ (f.k = "inf" \/ (f.k = "num" /\ Len(f.m) # 0))
FPositive(f) == CHOOSE r \in {FPositiveOf(x) : x \in {f}} : TRUE

\* int64(f) for a finite f: the fraction is dropped (conversion truncates
\* toward zero).
FTruncMag(f) == IF f.e >= 0 THEN BToInt(BShl(f.m, f.e)) ELSE BToInt(BShr(f.m, -f.e))
FTruncOf(f) == IF f.s = 1 THEN -FTruncMag(f) ELSE FTruncMag(f)
FTrunc(f) == CHOOSE r \in {FTruncOf(x) : x \in {f}} : TRUE

\* ------------------------------------------------------------ the statistics
\* Durations are whole nanoseconds, as time.Duration is.

\* time.Second, in nanoseconds.
Second == 10^9

\* Duration.Seconds: the whole seconds plus the remaining nanoseconds over 1e9.
Seconds(d) == FAdd(FFromInt(d \div Second), FDiv(FFromInt(d % Second), FFromInt(Second)))

\* time.Duration(x * float64(time.Second)).
ToDuration(x) == FTrunc(FMul(x, FFromInt(Second)))

\* sum += d.Seconds() over durations[k..].
RECURSIVE SumSeconds(_, _, _)
SumSeconds(durations, k, sum) ==
    IF k > Len(durations) THEN sum
    ELSE SumSeconds(durations, k + 1, FAdd(sum, Seconds(durations[k])))

\* sumSqDiff += diff * diff over durations[k..], the product rounded before the
\* addition.
RECURSIVE SumSqDiff(_, _, _, _)
SumSqDiff(durations, meanSeconds, k, sumSqDiff) ==
    IF k > Len(durations) THEN sumSqDiff
    ELSE LET diff == FSub(Seconds(durations[k]), meanSeconds)
         IN  SumSqDiff(durations, meanSeconds, k + 1, FAdd(sumSqDiff, FMul(diff, diff)))

\* The mean and the standard deviation of a series, as durations.
calculateStatistics(durations) ==
    IF Len(durations) = 0 THEN [mean |-> 0, stdDev |-> 0]
    ELSE LET n == FFromInt(Len(durations))
             meanSeconds == FDiv(SumSeconds(durations, 1, FZero), n)
             variance == FDiv(SumSqDiff(durations, meanSeconds, 1, FZero), n)
             stdDevSeconds == FSqrt(variance)
         IN  [mean |-> ToDuration(meanSeconds), stdDev |-> ToDuration(stdDevSeconds)]

\* The throughput of one trial in Gbps: bytes * 8 over the seconds times 1e9.
Throughput(bytes, totalDurSeconds) ==
    FDiv(FMul(FFromInt(bytes), FFromInt(8)), FMul(totalDurSeconds, FFromInt(Second)))

\* The throughputs of the trials whose total duration is positive, in order,
\* each from the byte count of the run; the other trials are skipped silently.
RECURSIVE Throughputs(_, _, _)
Throughputs(bytes, totalDurations, k) ==
    IF k > Len(totalDurations) THEN <<>>
    ELSE LET totalDurSeconds == Seconds(totalDurations[k])
             rest == Throughputs(bytes, totalDurations, k + 1)
         IN  IF FPositive(totalDurSeconds)
             THEN <<Throughput(bytes, totalDurSeconds)>> \o rest
             ELSE rest

RECURSIVE SumThroughput(_, _, _)
SumThroughput(throughputs, k, sum) ==
    IF k > Len(throughputs) THEN sum
    ELSE SumThroughput(throughputs, k + 1, FAdd(sum, throughputs[k]))

\* The divisor of the mean throughput.
ThroughputCount(throughputs) == Len(throughputs)

\* What PrintResults computes and prints; it logs no warning.
PrintResults(bytes, hs, dt) ==
    LET totals == TotalDurations(hs, dt)
        throughputs == Throughputs(bytes, totals, 1)
    IN  [totalBytes |-> bytes,
         runs |-> Len(hs),
         handshake |-> calculateStatistics(hs),
         dataTransfer |-> calculateStatistics(dt),
         total |-> calculateStatistics(totals),
         totalDurations |-> totals,
         throughputs |-> throughputs,
         meanThroughput |-> FDiv(SumThroughput(throughputs, 1, FZero),
                                 FFromInt(ThroughputCount(throughputs))),
         warnings |-> <<>>]

\* Longest series given to PrintResults on its own.
MaxRuns == 2
\* Handshake durations of such a series: none, or a few nanoseconds.
HandshakeDurations == {0, 15}
\* Transfer durations: none, a few nanoseconds, a second and a few nanoseconds.
TransferDurations == {0, 15, Second + 7}
\* Byte counts of such a run.
ByteCounts == {0, PayloadLen}

StatsInit ==
    /\ \E n \in 0..MaxRuns :
        \E hs \in [1..n -> HandshakeDurations], dt \in [1..n -> TransferDurations] :
            \E b \in ByteCounts :
                args = <<[totalBytes |-> b, handshakeDurations |-> hs,
                          dataTransferDurations |-> dt]>>
    /\ report = NoReport

ApplyPrintResults ==
    /\ args # NoReport
    /\ report = NoReport
    /\ report' = <<PrintResults(args[1].totalBytes, args[1].handshakeDurations,
                                args[1].dataTransferDurations)>>
    /\ UNCHANGED <<args, clientVars, serverVars>>

StatsNext == ApplyPrintResults

\* ------------------------------------------------------------ the server

\* Number of clients that connect to the server.
NumClients == 2
\* Number of Accept calls that may fail.
MaxAcceptErrors == 1

Clients == 1..NumClients

ServerInit ==
    /\ sproto \in {"tcp", "quic"}
    \* data.Generate: the units are told apart by their position, so that a loss,
    \* a duplication or a reordering of units shows in what a client receives
    /\ payload = [k \in 1..PayloadLen |-> k]
    /\ srvpc = "setup"
    /\ srvExit = "running"
    /\ pprof = "starting"
    /\ acceptErrors = 0
    /\ cli = [c \in Clients |-> "idle"]
    /\ hst = [c \in Clients |-> "none"]
    /\ sent = [c \in Clients |-> 0]
    /\ rcvd = [c \in Clients |-> <<>>]
    /\ hlog = [c \in Clients |-> <<>>]
    /\ overlap = FALSE

\* Two handlers are inside Write at the same time.
BothWriting(h) == \E c, d \in Clients : c # d /\ h[c] = "write" /\ h[d] = "write"

\* server.go lines 22-27: http.ListenAndServe is serving.
PprofServe ==
    /\ srvExit = "running" /\ pprof = "starting"
    /\ pprof' = "serving"
    /\ UNCHANGED <<sproto, payload, srvpc, srvExit, acceptErrors, cli, hst, sent, rcvd,
                   hlog, overlap>>
    /\ UNCHANGED <<clientVars, statsVars>>

\* server.go lines 24-26: http.ListenAndServe returns an error (the port is taken):
\* log.Fatalf ends the process, whatever the main goroutine is doing.
PprofFail ==
    /\ srvExit = "running" /\ pprof = "starting"
    /\ pprof' = "failed"
    /\ srvExit' = "fatal"
    /\ UNCHANGED <<sproto, payload, srvpc, acceptErrors, cli, hst, sent, rcvd, hlog, overlap>>
    /\ UNCHANGED <<clientVars, statsVars>>

\* server.go lines 36-39 and 107-110: tlsutil.Setup; an error is returned to
\* runServer, whose log.Fatalf ends the process.
SrvSetup ==
    /\ srvExit = "running" /\ srvpc = "setup"
    /\ \E ok \in BOOLEAN :
        IF ok THEN srvpc' = "listen" /\ UNCHANGED srvExit
              ELSE srvpc' = "returned" /\ srvExit' = "fatal"
    /\ UNCHANGED <<sproto, payload, pprof, acceptErrors, cli, hst, sent, rcvd, hlog, overlap>>
    /\ UNCHANGED <<clientVars, statsVars>>

\* server.go lines 42-47 and 122-128: net.Listen / quic.ListenAddr.
SrvListen ==
    /\ srvExit = "running" /\ srvpc = "listen"
    /\ \E ok \in BOOLEAN :
        IF ok THEN srvpc' = "accept" /\ UNCHANGED srvExit
              ELSE srvpc' = "returned" /\ srvExit' = "fatal"
    /\ UNCHANGED <<sproto, payload, pprof, acceptErrors, cli, hst, sent, rcvd, hlog, overlap>>
    /\ UNCHANGED <<clientVars, statsVars>>

\* A client connects to the listening server; the connection waits to be accepted.
ClientDial(c) ==
    /\ srvExit = "running" /\ srvpc = "accept"
    /\ cli[c] = "idle"
    /\ cli' = [cli EXCEPT ![c] = "dialed"]
    /\ UNCHANGED <<sproto, payload, srvpc, srvExit, pprof, acceptErrors, hst, sent, rcvd,
                   hlog, overlap>>
    /\ UNCHANGED <<clientVars, statsVars>>

\* A client goes away abruptly, at any point after it has dialed.
ClientDisconnect(c) ==
    /\ cli[c] = "dialed"
    /\ cli' = [cli EXCEPT ![c] = "gone"]
    /\ UNCHANGED <<sproto, payload, srvpc, srvExit, pprof, acceptErrors, hst, sent, rcvd,
                   hlog, overlap>>
    /\ UNCHANGED <<clientVars, statsVars>>

\* server.go lines 52-55 and 133-136: Accept fails; the error is logged and the
\* loop continues.
SrvAcceptError ==
    /\ srvExit = "running" /\ srvpc = "accept"
    /\ acceptErrors < MaxAcceptErrors
    /\ acceptErrors' = acceptErrors + 1
    /\ UNCHANGED <<sproto, payload, srvpc, srvExit, pprof, cli, hst, sent, rcvd, hlog,
                   overlap>>
    /\ UNCHANGED <<clientVars, statsVars>>

\* Mutant of HandlerEntry: the handler closes first (Close called, not deferred).
HandlerEntry_CloseFirst(p) == "close"

\* server.go lines 89-93 and 140-142: where a spawned handler starts.
HandlerEntry(p) == IF p = "tcp" THEN "write" ELSE "open"

\* server.go lines 51-96: Accept returns a connection; TCP_MAXSEG is set in the
\* accept loop; SyscallConn or Control failing closes the raw connection and the
\* loop continues (no handler); otherwise the handler goroutine is spawned.
AcceptTCP(c) ==
    /\ srvExit = "running" /\ srvpc = "accept" /\ sproto = "tcp"
    /\ cli[c] \in {"dialed", "gone"} /\ hst[c] = "none"
    /\ \E o \in MSSOutcomes :
        hst' = [hst EXCEPT ![c] = IF o \in {"ok", "setsockopt"}
                                    THEN HandlerEntry(sproto) ELSE "dropped"]
    /\ overlap' = (overlap \/ BothWriting(hst'))
    /\ UNCHANGED <<sproto, payload, srvpc, srvExit, pprof, acceptErrors, cli, sent, rcvd,
                   hlog>>
    /\ UNCHANGED <<clientVars, statsVars>>

\* server.go lines 132-154: Accept returns a connection, the handler is spawned.
AcceptQUIC(c) ==
    /\ srvExit = "running" /\ srvpc = "accept" /\ sproto = "quic"
    /\ cli[c] \in {"dialed", "gone"} /\ hst[c] = "none"
    /\ hst' = [hst EXCEPT ![c] = HandlerEntry(sproto)]
    /\ overlap' = (overlap \/ BothWriting(hst'))
    /\ UNCHANGED <<sproto, payload, srvpc, srvExit, pprof, acceptErrors, cli, sent, rcvd,
                   hlog>>
    /\ UNCHANGED <<clientVars, statsVars>>

\* server.go lines 142-148: OpenStreamSync; on an error (the connection is dead)
\* the handler logs and returns, with no stream to write to or to close.
HandlerOpenStream(c) ==
    /\ srvExit = "running" /\ hst[c] = "open"
    /\ \E ok \in BOOLEAN :
        /\ ~ok => cli[c] = "gone"
        /\ hst' = [hst EXCEPT ![c] = IF ok THEN "write" ELSE "returned"]
    /\ hlog' = [hlog EXCEPT ![c] = Append(@, "OpenStreamSync")]
    /\ overlap' = (overlap \/ BothWriting(hst'))
    /\ UNCHANGED <<sproto, payload, srvpc, srvExit, pprof, acceptErrors, cli, sent, rcvd>>
    /\ UNCHANGED <<clientVars, statsVars>>

\* server.go lines 93 and 151: Write(data) sends the shared payload in order.
NextUnit(c) == payload[sent[c] + 1]

\* Mutant of OnWriteError: the write error is fatal (log.Fatalf for log.Printf).
OnWriteError_Fatal == "fatal"

\* server.go lines 93-95 and 151-153: a write error is logged.
OnWriteError == "log"

\* server.go lines 93-95 and 151-153: Write(data), one unit per step.  Write
\* returns after the last unit, or with an error once the peer is gone.
HandlerWrite(c) ==
    /\ srvExit = "running" /\ hst[c] = "write"
    /\ IF cli[c] = "gone"
         THEN /\ hst' = [hst EXCEPT ![c] = "close"]
              /\ hlog' = [hlog EXCEPT ![c] = Append(@, "Write")]
              /\ srvExit' = IF OnWriteError = "fatal" THEN "fatal" ELSE srvExit
              /\ UNCHANGED <<sent, rcvd>>
         ELSE /\ sent[c] < PayloadLen
              /\ sent' = [sent EXCEPT ![c] = @ + 1]
              /\ rcvd' = [rcvd EXCEPT ![c] = Append(@, NextUnit(c))]
              /\ IF sent'[c] = PayloadLen
                   THEN /\ hst' = [hst EXCEPT ![c] = "close"]
                        /\ hlog' = [hlog EXCEPT ![c] = Append(@, "Write")]
                   ELSE UNCHANGED <<hst, hlog>>
              /\ UNCHANGED srvExit
    /\ UNCHANGED <<sproto, payload, srvpc, pprof, acceptErrors, cli, overlap>>
    /\ UNCHANGED <<clientVars, statsVars>>

\* server.go lines 91 and 148: the deferred Close runs as the handler returns.
HandlerClose(c) ==
    /\ srvExit = "running" /\ hst[c] = "close"
    /\ hst' = [hst EXCEPT ![c] = "closed"]
    /\ hlog' = [hlog EXCEPT ![c] = Append(@, "Close")]
    /\ UNCHANGED <<sproto, payload, srvpc, srvExit, pprof, acceptErrors, cli, sent, rcvd,
                   overlap>>
    /\ UNCHANGED <<clientVars, statsVars>>

\* The client's io.Copy reaches the end of the stream: the transfer is complete.
ClientEOF(c) ==
    /\ cli[c] = "dialed" /\ hst[c] = "closed"
    /\ cli' = [cli EXCEPT ![c] = "complete"]
    /\ UNCHANGED <<sproto, payload, srvpc, srvExit, pprof, acceptErrors, hst, sent, rcvd,
                   hlog, overlap>>
    /\ UNCHANGED <<clientVars, statsVars>>

\* The client's handshake, stream accept or read fails: the server dropped the
\* connection, its handler returned without a stream, or the process is gone.
ClientError(c) ==
    /\ cli[c] = "dialed"
    /\ hst[c] \in {"dropped", "returned"} \/ (srvExit = "fatal" /\ hst[c] # "closed")
    /\ cli' = [cli EXCEPT ![c] = "failed"]
    /\ UNCHANGED <<sproto, payload, srvpc, srvExit, pprof, acceptErrors, hst, sent, rcvd,
                   hlog, overlap>>
    /\ UNCHANGED <<clientVars, statsVars>>

ServerNext ==
    \/ PprofServe
    \/ PprofFail
    \/ SrvSetup
    \/ SrvListen
    \/ SrvAcceptError
    \/ \E c \in Clients :
        \/ ClientDial(c)
        \/ ClientDisconnect(c)
        \/ AcceptTCP(c)
        \/ AcceptQUIC(c)
        \/ HandlerOpenStream(c)
        \/ HandlerWrite(c)
        \/ HandlerClose(c)
        \/ ClientEOF(c)
        \/ ClientError(c)

\* ------------------------------------------------- idle states of the parts

ClientIdle ==
    /\ proto = "tcp" /\ pc = "off" /\ i = 0 /\ now = 0 /\ fuel = 0
    /\ handshakeStartTime = 0 /\ handshakeDuration = 0
    /\ dataTransferStartTime = 0 /\ dataTransferDuration = 0
    /\ bytesCopied = 0 /\ err = "nil" /\ sess = NoSess /\ totalBytes = 0
    /\ handshakeDurations = <<>> /\ dataTransferDurations = <<>>
    /\ exit = "running" /\ printed = NoReport /\ trials = <<>> /\ dials = 0

ServerIdle ==
    /\ sproto = "tcp" /\ payload = <<>> /\ srvpc = "off" /\ srvExit = "running"
    /\ pprof = "off" /\ acceptErrors = 0
    /\ cli = <<>> /\ hst = <<>> /\ sent = <<>> /\ rcvd = <<>> /\ hlog = <<>>
    /\ overlap = FALSE

StatsIdle ==
    /\ args = NoReport
    /\ report = NoReport

\* ------------------------------------------------------------------ claims

\* The trial whose result is retained at index k of the series.
TrialOf(k) == trials[warmupRuns + k]

\* C1: every trial recorded as successful transferred exactly the payload size;
\* a stream that ends after fewer bytes is never recorded as a successful trial.
C1_SuccessfulTrialHasFullPayload ==
    \A k \in 1..Len(trials) : trials[k].bytes = PayloadLen

\* C2: a trial that returns an error ends the run on the spot: the process exits
\* fatally, the trial is not retried (no further dial, no progress of the loop),
\* nothing happens after the exit, and no report is ever printed by a failed run.
C2_FailedTrialEndsRun ==
    /\ [](exit = "fatal" => printed = NoReport)
    /\ [][ /\ ((pc = "ret" /\ err # "nil")
                  => (exit' = "fatal" /\ printed' = NoReport /\ dials' = dials /\ i' = i))
            /\ ((exit = "fatal") => UNCHANGED vars) ]_vars

C2_Witness ==
    exit = "fatal" /\ err # "nil" /\ i >= warmupRuns /\ dials = i + 1

\* C3: a run that completes executed exactly warmupRuns + measurementRuns trials,
\* and the series handed to the statistics are exactly the results of the last
\* measurementRuns trials, in execution order.
C3_RetainedIsMeasurementSuffix ==
    printed # NoReport =>
        /\ dials = warmupRuns + measurementRuns
        /\ Len(trials) = warmupRuns + measurementRuns
        /\ Len(printed[1].handshakeDurations) = measurementRuns
        /\ Len(printed[1].dataTransferDurations) = measurementRuns
        /\ \A k \in 1..measurementRuns :
              /\ printed[1].handshakeDurations[k] = TrialOf(k).hs
              /\ printed[1].dataTransferDurations[k] = TrialOf(k).dt

\* A completed run whose warmup results differ from every retained result.
C3_Witness ==
    /\ printed # NoReport
    /\ trials[1].hs = 1 /\ trials[2].dt = 1
    /\ \A k \in 1..measurementRuns :
          printed[1].handshakeDurations[k] = 0 /\ printed[1].dataTransferDurations[k] = 0

\* C8: the total duration aggregated for retained trial k is the handshake plus
\* the transfer duration of that same trial.
C8_TotalIsPairwiseSum ==
    printed # NoReport =>
        /\ Len(printed[1].totalDurations) = measurementRuns
        /\ \A k \in 1..measurementRuns :
              printed[1].totalDurations[k] = TrialOf(k).hs + TrialOf(k).dt

\* A completed run in which the paired values differ from trial to trial.
C8_Witness ==
    /\ printed # NoReport
    /\ \E k \in 1..measurementRuns : TrialOf(k).hs = 1 /\ TrialOf(k).dt = 1
    /\ \E k \in 1..measurementRuns : printed[1].totalDurations[k] = 0

IsPrefix(s, t) == Len(s) <= Len(t) /\ \A k \in 1..Len(s) : s[k] = t[k]

\* The server-side and client-side state of one connection.
ConnState(c) == <<cli[c], hst[c], sent[c], rcvd[c], hlog[c]>>

\* C4: every client receives the server's payload, unit for unit, and a client
\* whose transfer completes has all of it; neither the abrupt disconnect of a
\* client nor anything the server then does on that client's connection touches
\* the server process or another connection, and the handler of a connected
\* client can always go on writing while the process runs.
C4_ConcurrentClientsIndependent ==
    /\ [](\A c \in Clients :
            /\ IsPrefix(rcvd[c], payload)
            /\ (cli[c] = "complete" => rcvd[c] = payload))
    /\ [][\A c \in Clients :
            ((cli'[c] = "gone") /\ (ConnState(c)' # ConnState(c)))
              => /\ srvExit' = srvExit
                 /\ srvpc' = srvpc
                 /\ \A d \in Clients \ {c} : ConnState(d)' = ConnState(d)]_vars
    /\ [](\A c, d \in Clients :
            (c # d /\ cli[c] = "gone" /\ srvExit = "running"
                   /\ cli[d] = "dialed" /\ hst[d] = "write")
              => ENABLED HandlerWrite(d))

\* Two transfers overlapped; one client went away in the middle of its transfer
\* and the server noticed; the other has the whole payload.
C4_Witness ==
    /\ overlap
    /\ srvExit = "running"
    /\ payload[1] # payload[2]
    /\ \E c, d \in Clients :
        /\ c # d
        /\ cli[c] = "gone" /\ 0 < sent[c] /\ sent[c] < PayloadLen /\ hst[c] = "closed"
        /\ cli[d] = "complete" /\ rcvd[d] = payload

\* C5: once the server is in its accept loop, no step takes it out of the loop
\* or ends the process.
C5_ListeningServerKeepsRunning ==
    [][(srvpc = "accept" /\ srvExit = "running")
         => (srvpc' = "accept" /\ srvExit' = "running")]_vars

\* The calls a handler makes on its connection when nothing fails.
FullLog == IF sproto = "tcp" THEN <<"Write", "Close">>
                             ELSE <<"OpenStreamSync", "Write", "Close">>

RECURSIVE OwnThroughputs(_)
OwnThroughputs(k) ==
    IF k > Len(handshakeDurations) THEN <<>>
    ELSE LET totalDurSeconds == Seconds(TrialOf(k).hs + TrialOf(k).dt)
         IN  IF FPositive(totalDurSeconds)
             THEN <<Throughput(TrialOf(k).bytes, totalDurSeconds)>> \o OwnThroughputs(k + 1)
             ELSE OwnThroughputs(k + 1)

\* C9: the throughputs that are averaged into the reported mean are, trial by
\* trial, the throughput of that trial's own bytes over that trial's own total
\* duration, never one computed from another trial's byte count.
C9_ThroughputFromOwnBytes ==
    printed # NoReport =>
        PrintResults(printed[1].totalBytes, printed[1].handshakeDurations,
                     printed[1].dataTransferDurations).throughputs = OwnThroughputs(1)

\* The trials of a report whose total duration is zero.
ZeroTotals(r) == {k \in 1..Len(r.totalDurations) : r.totalDurations[k] = 0}

\* C7: every trial with a zero total duration is left out of the throughput
\* average and has a warning recorded for it, and the mean throughput is never
\* obtained by dividing by zero, not even when no trial contributes.
C7_ZeroDurationExcludedWithWarning ==
    report # NoReport =>
        LET r == report[1] IN
        /\ Len(r.throughputs) = Len(r.totalDurations) - Cardinality(ZeroTotals(r))
        /\ Len(r.warnings) = Cardinality(ZeroTotals(r))
        /\ ThroughputCount(r.throughputs) # 0
        /\ ~FIsNaN(r.meanThroughput)

\* A series of at least one duration, all of them equal.
Identical(durations) ==
    Len(durations) >= 1 /\ \A k \in 1..Len(durations) : durations[k] = durations[1]

\* C10: over N >= 1 identical durations D the mean is exactly D and the standard
\* deviation exactly zero, for the handshake, the transfer and the total series.
C10_IdenticalDurationsExactStatistics ==
    report # NoReport =>
        LET a == args[1]
            r == report[1]
        IN  /\ Identical(a.handshakeDurations) =>
                  r.handshake = [mean |-> a.handshakeDurations[1], stdDev |-> 0]
            /\ Identical(a.dataTransferDurations) =>
                  r.dataTransfer = [mean |-> a.dataTransferDurations[1], stdDev |-> 0]
            /\ Identical(r.totalDurations) =>
                  r.total = [mean |-> r.totalDurations[1], stdDev |-> 0]

\* The positions of a client that is inside a trial.
InTrial == DOMAIN BlockedAt \cup {BlockedAt[b] : b \in DOMAIN BlockedAt} \cup {"tcp_mss"}

\* C11: every started trial eventually ends, complete or failed: the client
\* function returns, however the peer behaves; a client blocked by a peer that
\* made no progress is released by a timeout and never hangs.
C11_EveryTrialEnds == (pc \in InTrial) ~> (pc = "ret")

\* C12: no path leaves an opened session unclosed: when the client function
\* returns, on success or on any failure, the connection it dialed is closed.
C12_ReturnedTrialClosedSession == pc = "ret" => sess.conn # "open"

\* The state of the current trial in the terms of the trial state machine.  The
\* stream variant has no position of its own for HandshakeComplete: client.go
\* lines 60-66 take the handshake duration and start the transfer clock with no
\* blocking call in between.
TrialState ==
    CASE pc = "loop" -> "Idle"
      [] pc \in {"tcp_dial", "tcp_mss", "tcp_handshake", "quic_dial", "tcp_dial_blocked",
                 "tcp_handshake_blocked", "quic_dial_blocked"} -> "Dialing"
      [] pc \in {"quic_accept", "quic_accept_blocked"} -> "HandshakeComplete"
      [] pc \in {"copy", "copy_blocked"} -> "Transferring"
      [] pc \in {"ret", "sleep"} -> IF err = "nil" THEN "Complete" ELSE "Failed"
      [] pc = "exited" -> IF exit = "fatal" THEN "Failed" ELSE "Idle"

\* The moves of the trial state machine; Complete -> Idle is the loop going on
\* to the next trial.
TrialMoves ==
    {<<"Idle", "Dialing">>, <<"Dialing", "HandshakeComplete">>,
     <<"HandshakeComplete", "Transferring">>, <<"Transferring", "Complete">>,
     <<"Complete", "Idle">>}
      \cup {<<st, "Failed">> : st \in {"Idle", "Dialing", "HandshakeComplete", "Transferring"}}

\* A step keeps the trial state, makes a move of the state machine, or (stream
\* variant) passes HandshakeComplete inside the step that ends the TLS handshake,
\* the handshake duration being taken at that instant.
C13_MovesAlongStateMachine ==
    \/ TrialState' = TrialState
    \/ <<TrialState, TrialState'>> \in TrialMoves
    \/ /\ proto = "tcp" /\ TrialState = "Dialing" /\ TrialState' = "Transferring"
       /\ handshakeDuration' = now' - handshakeStartTime
       /\ dataTransferStartTime' = now'

\* A dial begins only when every earlier trial is complete and recorded, its
\* session is closed and the delay after it has elapsed.
C13_DialAfterPreviousTrial ==
    (pc = "loop" /\ pc' \in {"tcp_dial", "quic_dial"}) =>
        /\ sess.conn # "open"
        /\ Len(trials) = i
        /\ i > 0 => now >= dataTransferStartTime + trials[i].dt + SleepTicks

\* The delay starts after both measured intervals of the trial have ended and
\* changes neither of them.
C13_DelayOutsideIntervals ==
    (pc = "sleep" /\ pc' = "loop") =>
        /\ handshakeStartTime + handshakeDuration <= now
        /\ dataTransferStartTime + dataTransferDuration <= now
        /\ handshakeDurations' = handshakeDurations
        /\ dataTransferDurations' = dataTransferDurations
        /\ trials' = trials

\* C13: each trial moves only along Idle -> Dialing -> HandshakeComplete ->
\* Transferring -> Complete or from a non-terminal state to Failed; trials never
\* overlap: no session is open between trials, the dial of trial i+1 begins only
\* after trial i is complete, its session closed and the inter-trial delay
\* elapsed; the delay lies outside every measured interval.
C13_TrialsSequential ==
    /\ [][C13_MovesAlongStateMachine]_vars
    /\ [][C13_DialAfterPreviousTrial]_vars
    /\ [][C13_DelayOutsideIntervals]_vars
    /\ [](pc \in {"loop", "sleep"} => sess.conn # "open")

\* A later trial is transferring on its own open session, the earlier trials
\* being complete and recorded.
C13_Witness ==
    /\ i >= 1 /\ pc = "copy" /\ sess.conn = "open"
    /\ Len(trials) = i
    /\ handshakeStartTime >= SleepTicks

\* C14: in a multiplexed-variant trial the handshake interval ends only after
\* the first inbound stream has been accepted: when the transfer starts, the
\* handshake interval reaches up to the start of the transfer interval.
C14_StreamAcceptInHandshake ==
    (proto = "quic" /\ pc = "copy") =>
        handshakeStartTime + handshakeDuration = dataTransferStartTime

\* C15: a failure at any step of the segment-size configuration (raw socket
\* handle, control callback, socket option call) is only logged and never
\* aborts the client trial.
C15_SegmentConfigFailureProceeds == err \notin {"syscallconn", "control"}

\* ----------------------------------------------------------- specifications

\* One client run.
Init == ClientInit /\ ServerIdle /\ StatsIdle
Next == ClientNext
Spec == Init /\ [][Next]_vars

\* The same run with the client process scheduled whenever it can take a step.
LiveSpec == Spec /\ WF_vars(Next)

\* One server process and its clients.
ServerSpecInit == ServerInit /\ ClientIdle /\ StatsIdle
ServerSpec == ServerSpecInit /\ [][ServerNext]_vars

\* PrintResults on its own, over the series of StatsInit.
StatsSpecInit == StatsInit /\ ClientIdle /\ ServerIdle
StatsSpec == StatsSpecInit /\ [][StatsNext]_vars

====
